---- MODULE Spec2Model ----
(***************************************************************************)
(* gofs: the adapter that presents an absfs.Filer through io/fs.           *)
(*                                                                         *)
(* The adapter (FileSystem, File, DirEntry of gofs.go) is modelled from    *)
(* its code.  The wrapped absfs.Filer / absfs.File is the environment: a   *)
(* store with one directory (path "dir"), one regular file (path "file")   *)
(* and one path that does not exist ("missing"); the empty path is not a   *)
(* valid one.  Every call the adapter makes on it can succeed or fail; the *)
(* failures are inputs of the actions.                                     *)
(*                                                                         *)
(* Spec has one caller and takes each operation as one step.               *)
(* SpecConcurrent has several callers of FileSystem.ReadFile on one path   *)
(* and takes each underlying call of theirs as a step.                     *)
(***************************************************************************)
EXTENDS Integers, Sequences, FiniteSets, TLC

\* ---------------------------------------------------------------- bounds
NumChildren == 1      \* children of a small directory: f1, ..
MaxPseudo   == 1      \* "." / ".." pseudo-entries in a small directory
MaxLen      == 2      \* length of the regular file's content
MaxN        == 3      \* largest n passed to File.ReadDir
MaxFailAt   == 2      \* which underlying call of one operation fails (0: none)
MaxBuf      == 2      \* largest buffer passed to a Read
NumProcs    == 2      \* concurrent callers of FileSystem.ReadFile

\* ---------------------------------------------------------------- values
Nil         == "nil"
EOF         == "io.EOF"
ErrNotExist == "ErrNotExist"
ErrPerm     == "ErrPermission"
ErrIO       == "ErrIO"
ErrClosed   == "ErrClosed"
ErrNotDir   == "ErrNotDir"
ErrIsDir    == "ErrIsDir"
ErrInvalid  == "ErrInvalid"
ErrClose    == "ErrCloseFailed"

Dot    == "."
DotDot == ".."

\* names of the children of the small directories, in listing order
ChildNames == <<"f1", "f2", "f3", "f4">>

\* gofs_test.go, setupTestFS: testdir holds five files; the store lists "."
\* and ".." before them
TestDir     == <<Dot, DotDot, "file1", "file2", "file3", "file4", "file5">>
\* a store that lists pseudo-entries first, interleaved, last and repeated
MixedDir    == <<Dot, "f1", Dot, "f2", DotDot>>
\* the file's content when the directory is the one varied
TestContent == <<0, 255>>
\* gofs_test.go, setupTestFS: testfile.txt holds "Hello, World!"
HelloWorld  == <<72, 101, 108, 108, 111, 44, 32, 87, 111, 114, 108, 100, 33>>
Bytes      == {0, 255}
Paths      == {"dir", "file", "missing", ""}
\* the paths the store holds
Exists(path) == path \in {"dir", "file"}
NSet       == (-1)..MaxN
ExhaustStyles == {"EOF", "EmptyNil"}

Min(a, b) == IF a < b THEN a ELSE b


\* the os.FileInfo record the underlying store keeps for a name; a mode is
\* its file-type bits and its permission bits
InfoOf(nm) ==
  IF nm \in {Dot, DotDot, "f2"}
    THEN [name |-> nm, mode |-> [type |-> {"ModeDir"}, perm |-> "rwxr-xr-x"], isDir |-> TRUE]
    ELSE [name |-> nm, mode |-> [type |-> {}, perm |-> "rw-r--r--"], isDir |-> FALSE]

DirEntry(info) == [FileInfo |-> info]

RECURSIVE SeqsUpTo(_, _)
SeqsUpTo(S, k) ==
  IF k = 0 THEN {<<>>}
  ELSE LET shorter == SeqsUpTo(S, k - 1)
       IN shorter \cup {Append(s, x) : s \in {t \in shorter : Len(t) = k - 1}, x \in S}

\* the p-th pseudo-entry of a small directory: "..", ".", "..", ..  The code
\* compares a name with both, so which of the two stands where is not varied
\* here; TestDir and MixedDir have them in other orders.
PseudoName(p) == IF p % 2 = 1 THEN DotDot ELSE Dot

RECURSIVE Interleavings(_, _)
Interleavings(k, p) ==
  \* raw listings with the children f1..fk in order and exactly p
  \* pseudo-entries, at every place among them
  IF k = 0 /\ p = 0 THEN {<<>>}
  ELSE (IF k > 0 THEN {Append(s, ChildNames[k]) : s \in Interleavings(k - 1, p)} ELSE {})
       \cup
       (IF p > 0 THEN {Append(s, PseudoName(p)) : s \in Interleavings(k, p - 1)} ELSE {})

\* The raw listings explored: every small directory, and the two fixed ones
RawListings ==
  UNION {Interleavings(k, p) : k \in 0..NumChildren, p \in 0..MaxPseudo}
    \cup {TestDir, MixedDir}
Contents    == SeqsUpTo(Bytes, MaxLen)

VARIABLES
  raw,      \* the directory's raw listing, as the underlying Readdir yields it
  content,  \* the regular file's bytes
  hnd,      \* the File the caller holds: [st, kind, pos]
  hist,     \* what the caller's File has returned so far
  op,       \* the last operation and its results
  leaked,   \* underlying handles opened by ReadFile/ReadDir and not closed
  rf        \* the FileSystem.ReadFile calls that run concurrently, step by step

vars == <<raw, content, hnd, hist, op, leaked, rf>>

NoHandle == [st |-> "none", kind |-> "none", pos |-> 0]
\* hist.mode: "paged" while File.ReadDir was called with n > 0 only, "mixed"
\* once it was called with n <= 0, "faulted" once an underlying call failed
\* hist.returned: the names File.ReadDir returned, hist.got: the bytes
\* File.Read returned
\* hist.eof: a File.ReadDir(n > 0) on the handle has returned io.EOF
NoHist   == [returned |-> <<>>, got |-> <<>>, mode |-> "paged", eof |-> FALSE]

HistMode(mode, readAll, failed) ==
  IF failed \/ mode = "faulted" THEN "faulted"
  ELSE IF readAll \/ mode = "mixed" THEN "mixed"
  ELSE "paged"

\* uOpen, uRead, uClose: what the underlying open, read/listing and close
\* reported to the adapter during the operation ("none": not called)
\* a nil fs.FileInfo
NoInfo == [name |-> "nil", size |-> 0,
           mode |-> [type |-> {}, perm |-> "---------"], isDir |-> FALSE]

\* what Name, IsDir and Type of a DirEntry returned (none called)
NoAcc == [name |-> "none", isDir |-> FALSE, type |-> NoInfo.mode]

NoOp == [name |-> "none", path |-> "none", n |-> 0, entries |-> <<>>,
         data |-> <<>>, err |-> Nil, uOpen |-> "none", uRead |-> "none",
         uClose |-> "none", exhausted |-> FALSE, closes |-> 0,
         flag |-> "none", file |-> NoHandle,
         info |-> NoInfo, uStat |-> "none", acc |-> NoAcc, calls |-> 0]

\* The concurrent callers of FileSystem.ReadFile.  rf.procs[p] is the call of
\* caller p: where it stands (pc), the underlying handle it works on (h, an
\* index of rf.handles), the named results data and err, and what its
\* underlying calls reported.  rf.handles are the handles the store opened,
\* in the order of the OpenFile calls: the handle, who opened it, how often
\* and by whom it was closed.
Procs == 1..NumProcs

RFIdle == [pc |-> "idle", h |-> 0, data |-> <<>>, err |-> Nil,
           uOpen |-> "none", uRead |-> "none", uClose |-> "none"]

RFInit == [procs |-> [p \in Procs |-> RFIdle], handles |-> <<>>]

\* ------------------------------------------------ the underlying absfs.File
\* absfs.File.Readdir(1) on handle h with the cursor at pos
Readdir1(h, pos, fails, style) ==
  IF h.st # "open" THEN [list |-> <<>>, err |-> ErrClosed, pos |-> pos]
  ELSE IF h.kind # "dir" THEN [list |-> <<>>, err |-> ErrNotDir, pos |-> pos]
  ELSE IF fails THEN [list |-> <<>>, err |-> ErrIO, pos |-> pos]
  ELSE IF pos < Len(raw)
    THEN [list |-> <<InfoOf(raw[pos + 1])>>, err |-> Nil, pos |-> pos + 1]
  ELSE IF style = "EOF" THEN [list |-> <<>>, err |-> EOF, pos |-> pos]
  ELSE [list |-> <<>>, err |-> Nil, pos |-> pos]

\* absfs.File.Readdir(0): everything from the cursor on
Readdir0(h, pos, fails) ==
  IF h.st # "open" THEN [list |-> <<>>, err |-> ErrClosed, pos |-> pos]
  ELSE IF h.kind # "dir" THEN [list |-> <<>>, err |-> ErrNotDir, pos |-> pos]
  ELSE IF fails THEN [list |-> <<>>, err |-> ErrIO, pos |-> pos]
  ELSE [list |-> [i \in 1..(Len(raw) - pos) |-> InfoOf(raw[pos + i])],
        err |-> Nil, pos |-> Len(raw)]

\* ------------------------------------------------ gofs.go
\* the filter, were it to compare with "." only
RECURSIVE FilterList_DotOnly(_)
FilterList_DotOnly(list) ==
  IF list = <<>> THEN <<>>
  ELSE IF Head(list).name = Dot
         THEN FilterList_DotOnly(Tail(list))
         ELSE <<DirEntry(Head(list))>> \o FilterList_DotOnly(Tail(list))

\* the filter, were it to put each entry in front of those before it
RECURSIVE FilterList_Reversed(_)
FilterList_Reversed(list) ==
  IF list = <<>> THEN <<>>
  ELSE IF Head(list).name = Dot \/ Head(list).name = DotDot
         THEN FilterList_Reversed(Tail(list))
         ELSE FilterList_Reversed(Tail(list)) \o <<DirEntry(Head(list))>>

\* the filtering loop of File.ReadDir (n <= 0) and FileSystem.ReadDir
RECURSIVE FilterList(_)
FilterList(list) ==
  IF list = <<>> THEN <<>>
  ELSE IF Head(list).name = Dot \/ Head(list).name = DotDot
         THEN FilterList(Tail(list))
         ELSE <<DirEntry(Head(list))>> \o FilterList(Tail(list))

\* the loop, were it to return nil entries on every error as the n <= 0 branch does
RECURSIVE ReadDirLoop_DropOnError(_, _, _, _, _, _, _)
ReadDirLoop_DropOnError(h, dirs, pos, n, calls, failAt, style) ==
  IF ~(Len(dirs) < n)
    THEN [dirs |-> dirs, err |-> Nil, pos |-> pos, uerr |-> Nil,
          exhausted |-> FALSE, calls |-> calls]
  ELSE LET r == Readdir1(h, pos, calls + 1 = failAt, style)
       IN IF r.err # Nil
            THEN [dirs |-> <<>>, err |-> r.err, pos |-> r.pos, uerr |-> r.err,
                  exhausted |-> r.err = EOF, calls |-> calls + 1]
          ELSE IF Len(r.list) = 0
            THEN [dirs |-> dirs, err |-> Nil, pos |-> r.pos, uerr |-> Nil,
                  exhausted |-> TRUE, calls |-> calls + 1]
          ELSE IF r.list[1].name # Dot /\ r.list[1].name # DotDot
            THEN ReadDirLoop_DropOnError(h, Append(dirs, DirEntry(r.list[1])), r.pos, n,
                             calls + 1, failAt, style)
            ELSE ReadDirLoop_DropOnError(h, dirs, r.pos, n, calls + 1, failAt, style)

\* the loop, were it to count raw entries instead of kept ones
RECURSIVE ReadDirLoop_CountRaw(_, _, _, _, _, _, _)
ReadDirLoop_CountRaw(h, dirs, pos, n, calls, failAt, style) ==
  IF ~(calls < n)
    THEN [dirs |-> dirs, err |-> Nil, pos |-> pos, uerr |-> Nil,
          exhausted |-> FALSE, calls |-> calls]
  ELSE LET r == Readdir1(h, pos, calls + 1 = failAt, style)
       IN IF r.err # Nil
            THEN IF r.err = EOF /\ Len(dirs) > 0
                   THEN [dirs |-> dirs, err |-> Nil, pos |-> r.pos, uerr |-> r.err,
                         exhausted |-> TRUE, calls |-> calls + 1]
                   ELSE [dirs |-> dirs, err |-> r.err, pos |-> r.pos, uerr |-> r.err,
                         exhausted |-> r.err = EOF, calls |-> calls + 1]
          ELSE IF Len(r.list) = 0
            THEN [dirs |-> dirs, err |-> Nil, pos |-> r.pos, uerr |-> Nil,
                  exhausted |-> TRUE, calls |-> calls + 1]
          ELSE IF r.list[1].name # Dot /\ r.list[1].name # DotDot
            THEN ReadDirLoop_CountRaw(h, Append(dirs, DirEntry(r.list[1])), r.pos, n,
                             calls + 1, failAt, style)
            ELSE ReadDirLoop_CountRaw(h, dirs, r.pos, n, calls + 1, failAt, style)

\* the loop, were it to turn io.EOF into nil whatever it has accumulated
RECURSIVE ReadDirLoop_EOFIsNil(_, _, _, _, _, _, _)
ReadDirLoop_EOFIsNil(h, dirs, pos, n, calls, failAt, style) ==
  IF ~(Len(dirs) < n)
    THEN [dirs |-> dirs, err |-> Nil, pos |-> pos, uerr |-> Nil,
          exhausted |-> FALSE, calls |-> calls]
  ELSE LET r == Readdir1(h, pos, calls + 1 = failAt, style)
       IN IF r.err # Nil
            THEN [dirs |-> dirs, err |-> IF r.err = EOF THEN Nil ELSE r.err, pos |-> r.pos,
                  uerr |-> r.err, exhausted |-> r.err = EOF, calls |-> calls + 1]
          ELSE IF Len(r.list) = 0
            THEN [dirs |-> dirs, err |-> Nil, pos |-> r.pos, uerr |-> Nil,
                  exhausted |-> TRUE, calls |-> calls + 1]
          ELSE IF r.list[1].name # Dot /\ r.list[1].name # DotDot
            THEN ReadDirLoop_EOFIsNil(h, Append(dirs, DirEntry(r.list[1])), r.pos, n,
                             calls + 1, failAt, style)
            ELSE ReadDirLoop_EOFIsNil(h, dirs, r.pos, n, calls + 1, failAt, style)

\* the loop, were it to return every error, io.EOF included, as it is
RECURSIVE ReadDirLoop_EOFIsError(_, _, _, _, _, _, _)
ReadDirLoop_EOFIsError(h, dirs, pos, n, calls, failAt, style) ==
  IF ~(Len(dirs) < n)
    THEN [dirs |-> dirs, err |-> Nil, pos |-> pos, uerr |-> Nil,
          exhausted |-> FALSE, calls |-> calls]
  ELSE LET r == Readdir1(h, pos, calls + 1 = failAt, style)
       IN IF r.err # Nil
            THEN [dirs |-> dirs, err |-> r.err, pos |-> r.pos, uerr |-> r.err,
                  exhausted |-> r.err = EOF, calls |-> calls + 1]
          ELSE IF Len(r.list) = 0
            THEN [dirs |-> dirs, err |-> Nil, pos |-> r.pos, uerr |-> Nil,
                  exhausted |-> TRUE, calls |-> calls + 1]
          ELSE IF r.list[1].name # Dot /\ r.list[1].name # DotDot
            THEN ReadDirLoop_EOFIsError(h, Append(dirs, DirEntry(r.list[1])), r.pos, n,
                             calls + 1, failAt, style)
            ELSE ReadDirLoop_EOFIsError(h, dirs, r.pos, n, calls + 1, failAt, style)

\* the loop, were it to break on an error as it does on an empty list
RECURSIVE ReadDirLoop_BreakOnError(_, _, _, _, _, _, _)
ReadDirLoop_BreakOnError(h, dirs, pos, n, calls, failAt, style) ==
  IF ~(Len(dirs) < n)
    THEN [dirs |-> dirs, err |-> Nil, pos |-> pos, uerr |-> Nil,
          exhausted |-> FALSE, calls |-> calls]
  ELSE LET r == Readdir1(h, pos, calls + 1 = failAt, style)
       IN IF r.err # Nil
            THEN [dirs |-> dirs, err |-> Nil, pos |-> r.pos, uerr |-> r.err,
                  exhausted |-> r.err = EOF, calls |-> calls + 1]
          ELSE IF Len(r.list) = 0
            THEN [dirs |-> dirs, err |-> Nil, pos |-> r.pos, uerr |-> Nil,
                  exhausted |-> TRUE, calls |-> calls + 1]
          ELSE IF r.list[1].name # Dot /\ r.list[1].name # DotDot
            THEN ReadDirLoop_BreakOnError(h, Append(dirs, DirEntry(r.list[1])), r.pos, n,
                             calls + 1, failAt, style)
            ELSE ReadDirLoop_BreakOnError(h, dirs, r.pos, n, calls + 1, failAt, style)

\* the loop, were it to pull one more raw entry after the n-th filtered one
RECURSIVE ReadDirLoop_Lookahead(_, _, _, _, _, _, _)
ReadDirLoop_Lookahead(h, dirs, pos, n, calls, failAt, style) ==
  IF ~(Len(dirs) < n)
    THEN [dirs |-> dirs, err |-> Nil,
          pos |-> Readdir1(h, pos, FALSE, style).pos, uerr |-> Nil,
          exhausted |-> FALSE, calls |-> calls + 1]
  ELSE LET r == Readdir1(h, pos, calls + 1 = failAt, style)
       IN IF r.err # Nil
            THEN IF r.err = EOF /\ Len(dirs) > 0
                   THEN [dirs |-> dirs, err |-> Nil, pos |-> r.pos, uerr |-> r.err,
                         exhausted |-> TRUE, calls |-> calls + 1]
                   ELSE [dirs |-> dirs, err |-> r.err, pos |-> r.pos, uerr |-> r.err,
                         exhausted |-> r.err = EOF, calls |-> calls + 1]
          ELSE IF Len(r.list) = 0
            THEN [dirs |-> dirs, err |-> Nil, pos |-> r.pos, uerr |-> Nil,
                  exhausted |-> TRUE, calls |-> calls + 1]
          ELSE IF r.list[1].name # Dot /\ r.list[1].name # DotDot
            THEN ReadDirLoop_Lookahead(h, Append(dirs, DirEntry(r.list[1])), r.pos, n,
                                       calls + 1, failAt, style)
            ELSE ReadDirLoop_Lookahead(h, dirs, r.pos, n, calls + 1, failAt, style)

\* the loop, were it to ask once more after an empty list before giving up
RECURSIVE ReadDirLoop_RetryOnEmpty(_, _, _, _, _, _, _)
ReadDirLoop_RetryOnEmpty(h, dirs, pos, n, calls, failAt, style) ==
  IF ~(Len(dirs) < n)
    THEN [dirs |-> dirs, err |-> Nil, pos |-> pos, uerr |-> Nil,
          exhausted |-> FALSE, calls |-> calls]
  ELSE LET r == Readdir1(h, pos, calls + 1 = failAt, style)
       IN IF r.err # Nil
            THEN IF r.err = EOF /\ Len(dirs) > 0
                   THEN [dirs |-> dirs, err |-> Nil, pos |-> r.pos, uerr |-> r.err,
                         exhausted |-> TRUE, calls |-> calls + 1]
                   ELSE [dirs |-> dirs, err |-> r.err, pos |-> r.pos, uerr |-> r.err,
                         exhausted |-> r.err = EOF, calls |-> calls + 1]
          ELSE IF Len(r.list) = 0
            THEN [dirs |-> dirs, err |-> Nil,
                  pos |-> Readdir1(h, r.pos, FALSE, style).pos, uerr |-> Nil,
                  exhausted |-> TRUE, calls |-> calls + 2]
          ELSE IF r.list[1].name # Dot /\ r.list[1].name # DotDot
            THEN ReadDirLoop_RetryOnEmpty(h, Append(dirs, DirEntry(r.list[1])), r.pos, n,
                                          calls + 1, failAt, style)
            ELSE ReadDirLoop_RetryOnEmpty(h, dirs, r.pos, n, calls + 1, failAt, style)

\* the loop, were it to return a partial batch with a nil error on any error
RECURSIVE ReadDirLoop_SwallowsError(_, _, _, _, _, _, _)
ReadDirLoop_SwallowsError(h, dirs, pos, n, calls, failAt, style) ==
  IF ~(Len(dirs) < n)
    THEN [dirs |-> dirs, err |-> Nil, pos |-> pos, uerr |-> Nil,
          exhausted |-> FALSE, calls |-> calls]
  ELSE LET r == Readdir1(h, pos, calls + 1 = failAt, style)
       IN IF r.err # Nil
            THEN IF Len(dirs) > 0
                   THEN [dirs |-> dirs, err |-> Nil, pos |-> r.pos, uerr |-> r.err,
                         exhausted |-> r.err = EOF, calls |-> calls + 1]
                   ELSE [dirs |-> dirs, err |-> r.err, pos |-> r.pos, uerr |-> r.err,
                         exhausted |-> r.err = EOF, calls |-> calls + 1]
          ELSE IF Len(r.list) = 0
            THEN [dirs |-> dirs, err |-> Nil, pos |-> r.pos, uerr |-> Nil,
                  exhausted |-> TRUE, calls |-> calls + 1]
          ELSE IF r.list[1].name # Dot /\ r.list[1].name # DotDot
            THEN ReadDirLoop_SwallowsError(h, Append(dirs, DirEntry(r.list[1])), r.pos, n,
                                           calls + 1, failAt, style)
            ELSE ReadDirLoop_SwallowsError(h, dirs, r.pos, n, calls + 1, failAt, style)

\* the loop, were it to rewind the directory when it reports its end
RECURSIVE ReadDirLoop_RewindsAtEOF(_, _, _, _, _, _, _)
ReadDirLoop_RewindsAtEOF(h, dirs, pos, n, calls, failAt, style) ==
  IF ~(Len(dirs) < n)
    THEN [dirs |-> dirs, err |-> Nil, pos |-> pos, uerr |-> Nil,
          exhausted |-> FALSE, calls |-> calls]
  ELSE LET r == Readdir1(h, pos, calls + 1 = failAt, style)
       IN IF r.err # Nil
            THEN IF r.err = EOF /\ Len(dirs) > 0
                   THEN [dirs |-> dirs, err |-> Nil, pos |-> r.pos, uerr |-> r.err,
                         exhausted |-> TRUE, calls |-> calls + 1]
                   ELSE [dirs |-> dirs, err |-> r.err,
                         pos |-> IF r.err = EOF THEN 0 ELSE r.pos, uerr |-> r.err,
                         exhausted |-> r.err = EOF, calls |-> calls + 1]
          ELSE IF Len(r.list) = 0
            THEN [dirs |-> dirs, err |-> Nil, pos |-> r.pos, uerr |-> Nil,
                  exhausted |-> TRUE, calls |-> calls + 1]
          ELSE IF r.list[1].name # Dot /\ r.list[1].name # DotDot
            THEN ReadDirLoop_RewindsAtEOF(h, Append(dirs, DirEntry(r.list[1])), r.pos, n,
                                          calls + 1, failAt, style)
            ELSE ReadDirLoop_RewindsAtEOF(h, dirs, r.pos, n, calls + 1, failAt, style)

\* the loop of File.ReadDir for n > 0; calls counts the Readdir(1) calls made.
\* uerr is the error of the last underlying call, exhausted whether that call
\* found no more entries.
RECURSIVE ReadDirLoop(_, _, _, _, _, _, _)
ReadDirLoop(h, dirs, pos, n, calls, failAt, style) ==
  IF ~(Len(dirs) < n)
    THEN [dirs |-> dirs, err |-> Nil, pos |-> pos, uerr |-> Nil,
          exhausted |-> FALSE, calls |-> calls]
  ELSE LET r == Readdir1(h, pos, calls + 1 = failAt, style)
       IN IF r.err # Nil
            THEN IF r.err = EOF /\ Len(dirs) > 0
                   THEN [dirs |-> dirs, err |-> Nil, pos |-> r.pos, uerr |-> r.err,
                         exhausted |-> TRUE, calls |-> calls + 1]
                   ELSE [dirs |-> dirs, err |-> r.err, pos |-> r.pos, uerr |-> r.err,
                         exhausted |-> r.err = EOF, calls |-> calls + 1]
          ELSE IF Len(r.list) = 0
            THEN [dirs |-> dirs, err |-> Nil, pos |-> r.pos, uerr |-> Nil,
                  exhausted |-> TRUE, calls |-> calls + 1]
          ELSE IF r.list[1].name # Dot /\ r.list[1].name # DotDot
            THEN ReadDirLoop(h, Append(dirs, DirEntry(r.list[1])), r.pos, n,
                             calls + 1, failAt, style)
            ELSE ReadDirLoop(h, dirs, r.pos, n, calls + 1, failAt, style)

\* File.ReadDir(n), were it to read everything for n < 0 only
ReadDirResult_NegativeOnly(h, n, failAt, style) ==
  IF n < 0
    THEN LET r == Readdir0(h, h.pos, failAt = 1)
         IN IF r.err # Nil
              THEN [dirs |-> <<>>, err |-> r.err, pos |-> r.pos, uerr |-> r.err,
                    exhausted |-> FALSE, calls |-> 1]
              ELSE [dirs |-> FilterList(r.list), err |-> Nil, pos |-> r.pos,
                    uerr |-> Nil, exhausted |-> FALSE, calls |-> 1]
    ELSE ReadDirLoop(h, <<>>, h.pos, n, 0, failAt, style)

\* File.ReadDir(n), were it to look at the kind of handle before listing
ReadDirResult_ChecksKind(h, n, failAt, style) ==
  IF h.st = "open" /\ h.kind # "dir"
    THEN [dirs |-> <<>>, err |-> ErrInvalid, pos |-> h.pos, uerr |-> "none",
          exhausted |-> FALSE, calls |-> 0]
  ELSE IF n <= 0
    THEN LET r == Readdir0(h, h.pos, failAt = 1)
         IN IF r.err # Nil
              THEN [dirs |-> <<>>, err |-> r.err, pos |-> r.pos, uerr |-> r.err,
                    exhausted |-> FALSE, calls |-> 1]
              ELSE [dirs |-> FilterList(r.list), err |-> Nil, pos |-> r.pos,
                    uerr |-> Nil, exhausted |-> FALSE, calls |-> 1]
    ELSE ReadDirLoop(h, <<>>, h.pos, n, 0, failAt, style)

\* File.ReadDir(n), were n <= 0 to list the directory from its start
ReadDirResult_Rewinds(h, n, failAt, style) ==
  IF n <= 0
    THEN LET r == Readdir0(h, 0, failAt = 1)
         IN IF r.err # Nil
              THEN [dirs |-> <<>>, err |-> r.err, pos |-> r.pos, uerr |-> r.err,
                    exhausted |-> FALSE, calls |-> 1]
              ELSE [dirs |-> FilterList(r.list), err |-> Nil, pos |-> r.pos,
                    uerr |-> Nil, exhausted |-> FALSE, calls |-> 1]
    ELSE ReadDirLoop(h, <<>>, h.pos, n, 0, failAt, style)

\* File.ReadDir(n)
ReadDirResult(h, n, failAt, style) ==
  IF n <= 0
    THEN LET r == Readdir0(h, h.pos, failAt = 1)
         IN IF r.err # Nil
              THEN [dirs |-> <<>>, err |-> r.err, pos |-> r.pos, uerr |-> r.err,
                    exhausted |-> FALSE, calls |-> 1]
              ELSE [dirs |-> FilterList(r.list), err |-> Nil, pos |-> r.pos,
                    uerr |-> Nil, exhausted |-> FALSE, calls |-> 1]
    ELSE ReadDirLoop(h, <<>>, h.pos, n, 0, failAt, style)

EntryNames(dirs) == [i \in 1..Len(dirs) |-> dirs[i].FileInfo.name]

File_ReadDir(n, failAt, style) ==
  /\ hnd.st # "none"
  /\ LET r == ReadDirResult(hnd, n, failAt, style)
     IN /\ hnd' = [hnd EXCEPT !.pos = r.pos]
        /\ hist' = [returned |-> hist.returned \o EntryNames(r.dirs),
                    got |-> hist.got,
                    mode |-> HistMode(hist.mode, n <= 0, r.uerr \notin {Nil, EOF}),
                    eof |-> hist.eof \/ (n > 0 /\ r.err = EOF)]
        /\ op' = [NoOp EXCEPT !.name = "File.ReadDir", !.n = n, !.entries = r.dirs,
                              !.err = r.err, !.uRead = r.uerr,
                              !.exhausted = r.exhausted, !.calls = r.calls]
  /\ UNCHANGED <<raw, content, leaked, rf>>

\* ------------------------------------------------ the underlying absfs.Filer
\* Filer.OpenFile(name, O_RDONLY, 0)
OpenFile(path, fails) ==
  IF path = "" THEN [file |-> NoHandle, err |-> ErrInvalid]
  ELSE IF path = "missing" THEN [file |-> NoHandle, err |-> ErrNotExist]
  ELSE IF fails THEN [file |-> NoHandle, err |-> ErrPerm]
  ELSE [file |-> [st |-> "open", kind |-> path, pos |-> 0], err |-> Nil]

\* absfs.File.Close: the handle is dead afterwards, whatever Close reports
CloseErr(h, fails) ==
  IF h.st # "open" THEN ErrClosed ELSE IF fails THEN ErrClose ELSE Nil

\* absfs.File.Read into a buffer of k bytes; the store hands out at most
\* chunk bytes per call
ReadBytes(h, pos, k, chunk, fails) ==
  IF h.st # "open" THEN [bytes |-> <<>>, err |-> ErrClosed, pos |-> pos]
  ELSE IF h.kind # "file" THEN [bytes |-> <<>>, err |-> ErrIsDir, pos |-> pos]
  ELSE IF fails THEN [bytes |-> <<>>, err |-> ErrIO, pos |-> pos]
  ELSE IF k = 0 THEN [bytes |-> <<>>, err |-> Nil, pos |-> pos]
  ELSE IF pos >= Len(content) THEN [bytes |-> <<>>, err |-> EOF, pos |-> pos]
  ELSE LET m == Min(Min(k, chunk), Len(content) - pos)
       IN [bytes |-> SubSeq(content, pos + 1, pos + m), err |-> Nil, pos |-> pos + m]

\* the initial capacity of io.ReadAll's buffer
ReadAllBuf == 512

\* ------------------------------------------------ gofs.go, continued
\* absfs.O_RDONLY
O_RDONLY == "O_RDONLY"

\* FileSystem.Open, were it to report every failure as a missing file
FileSystem_Open_MapsError(path, openFails) ==
  /\ LET o == OpenFile(path, openFails)
     IN IF o.err # Nil
          THEN /\ op' = [NoOp EXCEPT !.name = "FileSystem.Open", !.path = path,
                                     !.flag = O_RDONLY,
                                     !.err = ErrNotExist, !.uOpen = o.err]
               /\ UNCHANGED <<hnd, hist>>
          ELSE /\ hnd' = o.file
               /\ hist' = NoHist
               /\ op' = [NoOp EXCEPT !.name = "FileSystem.Open", !.path = path,
                                     !.flag = O_RDONLY, !.file = o.file,
                                     !.uOpen = Nil]
  /\ UNCHANGED <<raw, content, leaked, rf>>

\* FileSystem.Open: op.flag is the flag handed to the underlying OpenFile,
\* op.file the handle the returned File wraps (NoHandle for a nil File)
FileSystem_Open(path, openFails) ==
  /\ LET o == OpenFile(path, openFails)
     IN IF o.err # Nil
          THEN /\ op' = [NoOp EXCEPT !.name = "FileSystem.Open", !.path = path,
                                     !.flag = O_RDONLY,
                                     !.err = o.err, !.uOpen = o.err]
               /\ UNCHANGED <<hnd, hist>>
          ELSE /\ hnd' = o.file
               /\ hist' = NoHist
               /\ op' = [NoOp EXCEPT !.name = "FileSystem.Open", !.path = path,
                                     !.flag = O_RDONLY, !.file = o.file,
                                     !.uOpen = Nil]
  /\ UNCHANGED <<raw, content, leaked, rf>>

\* File.Close; the underlying handle releases its cursor
File_Close(closeFails) ==
  /\ hnd.st # "none"
  /\ LET e == CloseErr(hnd, closeFails)
     IN op' = [NoOp EXCEPT !.name = "File.Close", !.err = e, !.uClose = e]
  /\ hnd' = [hnd EXCEPT !.st = "closed", !.pos = 0]
  /\ hist' = NoHist
  /\ UNCHANGED <<raw, content, leaked, rf>>

\* File.Read, were it to report the end of the stream as a plain success
File_Read_HidesEOF(k, chunk, fails) ==
  /\ hnd.st # "none"
  /\ LET r == ReadBytes(hnd, hnd.pos, k, chunk, fails)
     IN /\ hnd' = [hnd EXCEPT !.pos = r.pos]
        /\ hist' = [hist EXCEPT !.got = @ \o r.bytes,
                                !.mode = HistMode(@, FALSE, r.err \notin {Nil, EOF})]
        /\ op' = [NoOp EXCEPT !.name = "File.Read", !.n = k, !.data = r.bytes,
                              !.err = IF r.err = EOF THEN Nil ELSE r.err,
                              !.uRead = r.err, !.exhausted = r.err = EOF]
  /\ UNCHANGED <<raw, content, leaked, rf>>

\* File.Read
File_Read(k, chunk, fails) ==
  /\ hnd.st # "none"
  /\ LET r == ReadBytes(hnd, hnd.pos, k, chunk, fails)
     IN /\ hnd' = [hnd EXCEPT !.pos = r.pos]
        /\ hist' = [hist EXCEPT !.got = @ \o r.bytes,
                                !.mode = HistMode(@, FALSE, r.err \notin {Nil, EOF})]
        /\ op' = [NoOp EXCEPT !.name = "File.Read", !.n = k, !.data = r.bytes,
                              !.err = r.err, !.uRead = r.err,
                              !.exhausted = r.err = EOF]
  /\ UNCHANGED <<raw, content, leaked, rf>>

\* the deferred function, were it a plain "defer file.Close()"
DeferClose_IgnoreCloseError(err, closeErr) ==
  [err |-> err, closes |-> 1]

\* the deferred function, were it to return on an error without closing
DeferClose_NoCloseOnError(err, closeErr) ==
  IF err # Nil
    THEN [err |-> err, closes |-> 0]
    ELSE [err |-> closeErr, closes |-> 1]

\* the deferred function, were the error of Close to win whenever there is one
DeferClose_CloseErrorWins(err, closeErr) ==
  IF closeErr # Nil
    THEN [err |-> closeErr, closes |-> 1]
    ELSE [err |-> err, closes |-> 1]

\* the deferred function of FileSystem.ReadDir and FileSystem.ReadFile: err is
\* the named result at the return, closeErr what file.Close() reports
DeferClose(err, closeErr) ==
  IF err # Nil
    THEN [err |-> err, closes |-> 1]
    ELSE [err |-> closeErr, closes |-> 1]

\* FileSystem.ReadDir
FileSystem_ReadDir(path, openFails, listFails, closeFails) ==
  /\ LET o == OpenFile(path, openFails)
     IN IF o.err # Nil
          THEN /\ op' = [NoOp EXCEPT !.name = "FileSystem.ReadDir", !.path = path,
                                     !.err = o.err, !.uOpen = o.err]
               /\ leaked' = leaked
          ELSE LET r  == Readdir0(o.file, 0, listFails)
                   ce == CloseErr(o.file, closeFails)
                   d  == DeferClose(r.err, ce)
               IN /\ op' = [NoOp EXCEPT !.name = "FileSystem.ReadDir", !.path = path,
                                        !.entries = IF r.err # Nil THEN <<>>
                                                    ELSE FilterList(r.list),
                                        !.err = d.err, !.uOpen = Nil, !.uRead = r.err,
                                        !.uClose = IF d.closes > 0 THEN ce ELSE "none",
                                        !.closes = d.closes]
                  /\ leaked' = leaked + 1 - d.closes
  /\ UNCHANGED <<raw, content, hnd, hist, rf>>

\* ReadFile, were it to call Read once instead of io.ReadAll
ReadAll_SingleRead(h, b, pos, calls, failAt, chunk) ==
  LET r == ReadBytes(h, pos, ReadAllBuf, chunk, calls + 1 = failAt)
  IN [data |-> b \o r.bytes, err |-> IF r.err = EOF THEN Nil ELSE r.err,
      uerr |-> r.err]

\* io.ReadAll(file): Read into the spare capacity until an error; io.EOF is
\* not an error of ReadAll
RECURSIVE ReadAll(_, _, _, _, _, _)
ReadAll(h, b, pos, calls, failAt, chunk) ==
  LET r  == ReadBytes(h, pos, ReadAllBuf, chunk, calls + 1 = failAt)
      b2 == b \o r.bytes
  IN IF r.err # Nil
       THEN [data |-> b2, err |-> IF r.err = EOF THEN Nil ELSE r.err, uerr |-> r.err]
       ELSE ReadAll(h, b2, r.pos, calls + 1, failAt, chunk)

\* FileSystem.ReadFile
FileSystem_ReadFile(path, openFails, failAt, chunk, closeFails) ==
  /\ LET o == OpenFile(path, openFails)
     IN IF o.err # Nil
          THEN /\ op' = [NoOp EXCEPT !.name = "FileSystem.ReadFile", !.path = path,
                                     !.err = o.err, !.uOpen = o.err]
               /\ leaked' = leaked
          ELSE LET r  == ReadAll(o.file, <<>>, 0, 0, failAt, chunk)
                   ce == CloseErr(o.file, closeFails)
                   d  == DeferClose(r.err, ce)
               IN /\ op' = [NoOp EXCEPT !.name = "FileSystem.ReadFile", !.path = path,
                                        !.data = r.data, !.err = d.err, !.uOpen = Nil,
                                        !.uRead = r.uerr,
                                        !.uClose = IF d.closes > 0 THEN ce ELSE "none",
                                        !.closes = d.closes]
                  /\ leaked' = leaked + 1 - d.closes
  /\ UNCHANGED <<raw, content, hnd, hist, rf>>

\* fs.FileMode.IsDir and fs.FileMode.Type, as io/fs defines them
ModeIsDir(m) == "ModeDir" \in m.type

ModeType(m) == [type |-> m.type, perm |-> "---------"]

\* DirEntry.Name
DirEntry_Name(d) == d.FileInfo.name

\* DirEntry.IsDir
DirEntry_IsDir(d) == d.FileInfo.isDir

\* DirEntry.Type, were it to return the permission bits alone
DirEntry_Type_PermOnly(d) == [type |-> {}, perm |-> d.FileInfo.mode.perm]

\* DirEntry.Type: the captured FileInfo's Mode(), whole
DirEntry_Type(d) == d.FileInfo.mode

\* DirEntry.Info
DirEntry_Info(d) == [info |-> d.FileInfo, err |-> Nil]

\* the caller calls the four methods of the i-th entry of the listing it
\* was handed, and keeps that entry
DirEntry_Methods(i) ==
  /\ i \in 1..Len(op.entries)
  /\ LET d == op.entries[i]
     IN op' = [NoOp EXCEPT !.name = "DirEntry", !.entries = <<d>>,
                           !.acc = [name |-> DirEntry_Name(d),
                                    isDir |-> DirEntry_IsDir(d),
                                    type |-> DirEntry_Type(d)],
                           !.info = DirEntry_Info(d).info,
                           !.err = DirEntry_Info(d).err]
  /\ UNCHANGED <<raw, content, hnd, hist, leaked, rf>>

\* the os.FileInfo the store keeps for a path it holds
StatInfo(path) ==
  IF path = "dir"
    THEN [name |-> path, size |-> 0,
          mode |-> [type |-> {"ModeDir"}, perm |-> "rwxr-xr-x"], isDir |-> TRUE]
    ELSE [name |-> path, size |-> Len(content),
          mode |-> [type |-> {}, perm |-> "rw-r--r--"], isDir |-> FALSE]

\* absfs.Filer.Stat(name)
FilerStat(path, fails) ==
  IF path = "" THEN [info |-> NoInfo, err |-> ErrInvalid]
  ELSE IF path = "missing" THEN [info |-> NoInfo, err |-> ErrNotExist]
  ELSE IF fails THEN [info |-> NoInfo, err |-> ErrPerm]
  ELSE [info |-> StatInfo(path), err |-> Nil]

\* absfs.File.Stat()
FileStat(h, fails) ==
  IF h.st # "open" THEN [info |-> NoInfo, err |-> ErrClosed]
  ELSE IF fails THEN [info |-> NoInfo, err |-> ErrIO]
  ELSE [info |-> StatInfo(h.kind), err |-> Nil]

\* FileSystem.Stat, were it to return the record and drop the error
FileSystem_Stat_DropsError(path, fails) ==
  /\ LET r == FilerStat(path, fails)
     IN op' = [NoOp EXCEPT !.name = "FileSystem.Stat", !.path = path,
                           !.info = r.info, !.err = Nil, !.uStat = r.err]
  /\ UNCHANGED <<raw, content, hnd, hist, leaked, rf>>

\* FileSystem.Stat
FileSystem_Stat(path, fails) ==
  /\ LET r == FilerStat(path, fails)
     IN op' = [NoOp EXCEPT !.name = "FileSystem.Stat", !.path = path,
                           !.info = r.info, !.err = r.err, !.uStat = r.err]
  /\ UNCHANGED <<raw, content, hnd, hist, leaked, rf>>

\* File.Stat, were it to find the size by seeking to the end of the handle
File_Stat_SeeksToEnd(fails) ==
  /\ hnd.st # "none"
  /\ LET r == FileStat(hnd, fails)
     IN op' = [NoOp EXCEPT !.name = "File.Stat",
                           !.info = r.info, !.err = r.err, !.uStat = r.err]
  /\ hnd' = [hnd EXCEPT !.pos = IF hnd.kind = "dir" THEN Len(raw) ELSE Len(content)]
  /\ UNCHANGED <<raw, content, hist, leaked, rf>>

\* File.Stat
File_Stat(fails) ==
  /\ hnd.st # "none"
  /\ LET r == FileStat(hnd, fails)
     IN op' = [NoOp EXCEPT !.name = "File.Stat",
                           !.info = r.info, !.err = r.err, !.uStat = r.err]
  /\ UNCHANGED <<raw, content, hnd, hist, leaked, rf>>

\* ------------------------------------------------ FileSystem.ReadFile, by steps
\* ReadFile's OpenFile, were the FileSystem to keep the handle it opened first
\* and hand it to every later call
ReadFile_Open_SharesHandle(p, openFails) ==
  /\ rf.procs[p].pc = "idle"
  /\ LET o == OpenFile("file", openFails)
     IN IF o.err # Nil
          THEN /\ rf' = [rf EXCEPT !.procs[p] = [@ EXCEPT !.pc = "done", !.err = o.err,
                                                          !.uOpen = o.err]]
               /\ leaked' = leaked
          ELSE IF rf.handles # <<>>
            THEN /\ rf' = [rf EXCEPT !.procs[p] = [@ EXCEPT !.pc = "reading", !.h = 1,
                                                            !.uOpen = Nil]]
                 /\ leaked' = leaked
            ELSE /\ rf' = [rf EXCEPT !.procs[p] = [@ EXCEPT !.pc = "reading",
                                                            !.h = Len(rf.handles) + 1,
                                                            !.uOpen = Nil],
                                     !.handles = Append(@, [file |-> o.file, by |-> p,
                                                            closedBy |-> <<>>])]
                 /\ leaked' = leaked + 1
  /\ UNCHANGED <<raw, content, hnd, hist, op>>

\* ReadFile of caller p: f.Fs.OpenFile(name, O_RDONLY, 0) and the return on
\* its error; every call gets a handle of its own
ReadFile_Open(p, openFails) ==
  /\ rf.procs[p].pc = "idle"
  /\ LET o == OpenFile("file", openFails)
     IN IF o.err # Nil
          THEN /\ rf' = [rf EXCEPT !.procs[p] = [@ EXCEPT !.pc = "done", !.err = o.err,
                                                          !.uOpen = o.err]]
               /\ leaked' = leaked
          ELSE /\ rf' = [rf EXCEPT !.procs[p] = [@ EXCEPT !.pc = "reading",
                                                          !.h = Len(rf.handles) + 1,
                                                          !.uOpen = Nil],
                                   !.handles = Append(@, [file |-> o.file, by |-> p,
                                                          closedBy |-> <<>>])]
               /\ leaked' = leaked + 1
  /\ UNCHANGED <<raw, content, hnd, hist, op>>

\* one iteration of io.ReadAll(file) in the ReadFile of caller p: a Read on
\* its handle; io.EOF ends the loop without an error, another error with it
ReadFile_Read(p, chunk, fails) ==
  /\ rf.procs[p].pc = "reading"
  /\ LET me == rf.procs[p]
         f  == rf.handles[me.h].file
         r  == ReadBytes(f, f.pos, ReadAllBuf, chunk, fails)
     IN rf' = [rf EXCEPT
                 !.handles[me.h].file.pos = r.pos,
                 !.procs[p] = [@ EXCEPT
                    !.data = @ \o r.bytes,
                    !.uRead = r.err,
                    !.err = IF r.err = EOF THEN Nil ELSE r.err,
                    !.pc = IF r.err = Nil THEN "reading" ELSE "closing"]]
  /\ UNCHANGED <<raw, content, hnd, hist, op, leaked>>

\* the deferred function in the ReadFile of caller p, and the return
ReadFile_Close(p, closeFails) ==
  /\ rf.procs[p].pc = "closing"
  /\ LET me == rf.procs[p]
         f  == rf.handles[me.h].file
         ce == CloseErr(f, closeFails)
         d  == DeferClose(me.err, ce)
     IN /\ rf' = [rf EXCEPT
                    !.handles[me.h] = [@ EXCEPT !.file.st = "closed",
                                                !.closedBy = Append(@, p)],
                    !.procs[p] = [@ EXCEPT !.pc = "done", !.err = d.err,
                                           !.uClose = ce]]
        /\ leaked' = IF f.st = "open" THEN leaked - d.closes ELSE leaked
  /\ UNCHANGED <<raw, content, hnd, hist, op>>

\* the callers start on a store that holds the file
InitConcurrent ==
  /\ raw = <<>>
  /\ content \in Contents
  /\ hnd = NoHandle
  /\ hist = NoHist
  /\ op = NoOp
  /\ leaked = 0
  /\ rf = RFInit

NextConcurrent ==
  \/ \E p \in Procs : \E openFails \in BOOLEAN : ReadFile_Open(p, openFails)
  \/ \E p \in Procs : \E fails \in BOOLEAN :
       \E chunk \in (IF fails THEN {1} ELSE 1..MaxBuf) : ReadFile_Read(p, chunk, fails)
  \/ \E p \in Procs : \E closeFails \in BOOLEAN : ReadFile_Close(p, closeFails)

SpecConcurrent == InitConcurrent /\ [][NextConcurrent]_vars

\* The store as the caller prepared it (cmd/main.go, setupTestFS): the file
\* was created, content written to it and closed; the directory lists raw.
\* No operation reads both the directory and the file, so the two are varied
\* one at a time.
Init ==
  /\ \/ raw \in RawListings /\ content = TestContent
     \/ raw = <<>> /\ content \in Contents \cup {HelloWorld}
  /\ hnd = NoHandle
  /\ hist = NoHist
  /\ op = NoOp
  /\ leaked = 0
  /\ rf = RFInit

\* Inputs that cannot change an operation's outcome are fixed: nothing fails
\* after a failed open, a call that is not reached does not fail, and an
\* underlying call that fails does not also signal exhaustion.
Faults(possible) == IF possible THEN BOOLEAN ELSE {FALSE}

Opens(path, openFails) == Exists(path) /\ ~openFails

FailPoints(n) == IF n <= 0 THEN 0..1 ELSE 0..MaxFailAt

StylesFor(n, failAt) == IF n > 0 /\ failAt = 0 THEN ExhaustStyles ELSE {"EOF"}

ChunksFor(k) == IF k <= 1 THEN {1} ELSE 1..k

Next ==
  \/ \E n \in NSet : \E failAt \in FailPoints(n) : \E style \in StylesFor(n, failAt) :
       File_ReadDir(n, failAt, style)
  \/ \E path \in Paths : \E openFails \in Faults(Exists(path)) :
       FileSystem_Open(path, openFails)
  \/ \E closeFails \in BOOLEAN : File_Close(closeFails)
  \/ \E fails \in BOOLEAN : \E k \in (IF fails THEN {1} ELSE 0..MaxBuf) :
       \E chunk \in (IF fails THEN {1} ELSE ChunksFor(k)) :
         File_Read(k, chunk, fails)
  \/ \E path \in Paths : \E openFails \in Faults(Exists(path)) :
       \E listFails \in Faults(Opens(path, openFails) /\ path = "dir"),
          closeFails \in Faults(Opens(path, openFails)) :
         FileSystem_ReadDir(path, openFails, listFails, closeFails)
  \/ \E path \in Paths : \E openFails \in Faults(Exists(path)) :
       \E failAt \in (IF Opens(path, openFails) /\ path = "file"
                         THEN 0..MaxFailAt ELSE {0}),
          closeFails \in Faults(Opens(path, openFails)) :
         \E chunk \in (IF Opens(path, openFails) /\ path = "file" /\ failAt # 1
                          THEN 1..MaxBuf ELSE {1}) :
           FileSystem_ReadFile(path, openFails, failAt, chunk, closeFails)
  \/ \E path \in Paths : \E fails \in Faults(Exists(path)) :
       FileSystem_Stat(path, fails)
  \/ \E fails \in BOOLEAN : File_Stat(fails)
  \/ \E i \in 1..Len(TestDir) : DirEntry_Methods(i)

Spec == Init /\ [][Next]_vars

\* ------------------------------------------------ properties
\* the directory's children: the raw listing without "." and ".."
FilteredChildren == SelectSeq(raw, LAMBDA nm : nm \notin {Dot, DotDot})

Range(s) == {s[i] : i \in 1..Len(s)}

IsListing   == op.name \in {"File.ReadDir", "FileSystem.ReadDir"}
IsBatchRead == op.name \in {"FileSystem.ReadFile", "FileSystem.ReadDir"}

\* C1: no entry returned by FileSystem.ReadDir, File.ReadDir(n <= 0) or
\* File.ReadDir(n > 0) is named "." or "..", wherever the raw listing has them.
C1_NoPseudoEntries ==
  IsListing => \A i \in 1..Len(op.entries) :
                 op.entries[i].FileInfo.name \notin {Dot, DotDot}

C1_Witness ==
  /\ raw = MixedDir
  /\ op.name = "File.ReadDir" /\ op.n > 0
  /\ EntryNames(op.entries) = <<"f1", "f2">>

\* C2: when File.ReadDir(n > 0) calls, all with n > 0 and none failing, reach
\* the exhaustion signal on an open directory handle, the batches returned on
\* that handle together are exactly the directory's children, each once.
C2_BatchesPartitionChildren ==
  ( /\ op.name = "File.ReadDir" /\ op.n > 0 /\ op.err = EOF
    /\ hnd.st = "open" /\ hist.mode = "paged" )
  => hist.returned = FilteredChildren

C2_Witness ==
  /\ raw = TestDir
  /\ op.name = "File.ReadDir" /\ op.n = 1 /\ op.err = EOF
  /\ hnd.st = "open" /\ hist.mode = "paged"
  /\ Len(hist.returned) = 5

\* C3: File.ReadDir(n <= 0) on a freshly opened directory handle, and
\* FileSystem.ReadDir on a directory, return all the directory's children in
\* one call, with a nil error, when no underlying call fails.
C3_ReadAllReturnsEveryChild ==
  [][ /\ ( /\ op'.name = "File.ReadDir" /\ op'.n <= 0 /\ op'.uRead = Nil
           /\ hnd.st = "open" /\ hnd.kind = "dir" /\ hnd.pos = 0 /\ hist = NoHist )
         => (EntryNames(op'.entries) = FilteredChildren /\ op'.err = Nil)
      /\ ( /\ op'.name = "FileSystem.ReadDir" /\ op'.path = "dir"
           /\ op'.uOpen = Nil /\ op'.uRead = Nil /\ op'.uClose = Nil )
         => (EntryNames(op'.entries) = FilteredChildren /\ op'.err = Nil)
    ]_vars

C3_Witness ==
  /\ raw = TestDir
  /\ op.name = "File.ReadDir" /\ op.n < 0 /\ op.err = Nil
  /\ Len(op.entries) = 5 /\ Len(hist.returned) = 5

\* C4: when no underlying call fails, File.ReadDir(n > 0) returns min(n, r)
\* entries, r being the children not yet returned on the handle, and none of
\* them was returned before; on the five-file test directory ReadDir(3) twice
\* returns 3 and then 2 entries.
C4_ReturnsMinOfNAndRemaining ==
  [][ ( /\ op'.name = "File.ReadDir" /\ op'.n > 0 /\ op'.uRead \in {Nil, EOF}
        /\ hnd.st = "open" /\ hnd.kind = "dir" /\ hist.mode # "faulted" )
      => /\ Len(op'.entries) =
              Min(op'.n, Len(FilteredChildren) - Len(hist.returned))
         /\ Range(EntryNames(op'.entries)) \cap Range(hist.returned) = {}
         /\ (raw = TestDir /\ op'.n = 3 /\ hist.returned = <<>>)
              => Len(op'.entries) = 3
         /\ (raw = TestDir /\ op'.n = 3 /\ Len(hist.returned) = 3)
              => Len(op'.entries) = 2
    ]_vars

C4_Witness ==
  /\ raw = TestDir
  /\ op.name = "File.ReadDir" /\ op.n = 3 /\ op.err = Nil
  /\ EntryNames(op.entries) = <<"file4", "file5">>
  /\ hist.returned = <<"file1", "file2", "file3", "file4", "file5">>

\* C5: File.ReadDir(n > 0) that meets the underlying io.EOF before it has
\* accumulated any entry returns no entries and io.EOF.
C5_ExhaustedEmptyReturnsEOF ==
  ( /\ op.name = "File.ReadDir" /\ op.n > 0
    /\ op.uRead = EOF /\ op.entries = <<>> )
  => op.err = EOF

C5_Witness ==
  /\ raw = <<DotDot>>
  /\ op.name = "File.ReadDir" /\ op.n > 0
  /\ op.uRead = EOF /\ op.entries = <<>> /\ op.err = EOF
  /\ hnd.st = "open" /\ hnd.pos = 1

\* C6: File.ReadDir(n > 0) that finds the source exhausted after accumulating
\* at least one and fewer than n entries returns them with a nil error.
C6_PartialBatchReturnsNil ==
  ( /\ op.name = "File.ReadDir" /\ op.n > 0
    /\ op.exhausted /\ op.entries # <<>> )
  => (op.err = Nil /\ Len(op.entries) < op.n)

C6_Witness ==
  /\ raw = MixedDir
  /\ op.name = "File.ReadDir" /\ op.n = 3
  /\ op.uRead = EOF /\ op.exhausted
  /\ Len(op.entries) = 2 /\ op.err = Nil

\* C7: FileSystem.ReadFile of the file returns exactly the bytes written to
\* it, with a nil error, when open, reads and close succeed.
C7_ReadFileRoundTrip ==
  ( /\ op.name = "FileSystem.ReadFile" /\ op.path = "file"
    /\ op.uOpen = Nil /\ op.uRead \in {Nil, EOF} /\ op.uClose = Nil )
  => (op.data = content /\ op.err = Nil)

C7_Witness ==
  /\ op.name = "FileSystem.ReadFile" /\ op.path = "file"
  /\ content = <<255, 0>> /\ op.data = <<255, 0>> /\ op.err = Nil

\* C8: FileSystem.ReadFile and FileSystem.ReadDir whose open and read/listing
\* succeed and whose close fails return the close failure.
C8_CloseFailureReported ==
  ( /\ IsBatchRead /\ op.uOpen = Nil /\ op.uRead \in {Nil, EOF}
    /\ op.uClose \notin {Nil, "none"} )
  => op.err = op.uClose

C8_Witness ==
  /\ op.name = "FileSystem.ReadDir" /\ op.path = "dir"
  /\ op.uRead = Nil /\ op.uClose = ErrClose /\ op.err = ErrClose
  /\ op.entries # <<>>

\* C9: FileSystem.ReadFile and FileSystem.ReadDir close the handle they opened
\* exactly once on every path, attempt no close when the open failed, and so
\* leave no handle open.
C9_HandleClosedExactlyOnce ==
  /\ leaked = 0
  /\ IsBatchRead => /\ op.uOpen = Nil => op.closes = 1
                    /\ op.uOpen # Nil => op.closes = 0

C9_Witness ==
  /\ op.name = "FileSystem.ReadFile" /\ op.path = "file"
  /\ op.uOpen = Nil /\ op.uRead = ErrIO /\ op.uClose = ErrClose
  /\ op.closes = 1 /\ leaked = 0

\* C10: on a handle on which File.Close was called, every File.Read and every
\* File.ReadDir(n) returns a non-nil error and neither bytes nor entries.
C10_ClosedHandleFails ==
  (hnd.st = "closed" /\ op.name \in {"File.Read", "File.ReadDir"})
  => (op.err # Nil /\ op.data = <<>> /\ op.entries = <<>>)

C10_Witness ==
  /\ hnd.st = "closed" /\ hnd.kind = "dir"
  /\ op.name = "File.ReadDir" /\ op.n > 0 /\ op.err = ErrClosed

\* C11: the chunks successive File.Read calls return on an open handle of the
\* file are consecutive from offset 0: together they are a prefix of the
\* content, each no longer than its buffer; once they are the whole content a
\* Read into a non-empty buffer returns no bytes and io.EOF.
C11_ReadsAreConsecutiveChunks ==
  (hnd.st = "open" /\ hnd.kind = "file" /\ hist.mode # "faulted")
  => /\ hist.got = SubSeq(content, 1, Len(hist.got))
     /\ (op.name = "File.Read" /\ op.uRead \in {Nil, EOF})
          => /\ Len(op.data) <= op.n
             /\ (op.data = <<>> /\ op.n > 0)
                  => (hist.got = content /\ op.err = EOF)
             /\ op.data # <<>> => op.err = Nil

C11_Witness ==
  /\ hnd.st = "open" /\ hnd.kind = "file" /\ hist.mode = "paged"
  /\ content = <<255, 0>> /\ hist.got = <<255, 0>>
  /\ op.name = "File.Read" /\ op.n = 1 /\ op.data = <<>> /\ op.err = EOF

\* C12: FileSystem.Open hands the read-only flag to the underlying OpenFile;
\* when that fails (a non-existent or an empty path among the failures) it
\* returns no File and the underlying error itself; when it succeeds it
\* returns a File around the very handle OpenFile returned and a nil error,
\* for the file and for the directory.
C12_OpenForwardsHandleOrError ==
  op.name = "FileSystem.Open"
  => /\ op.flag = O_RDONLY
     /\ op.err = op.uOpen
     /\ ~Exists(op.path) => op.err # Nil
     /\ op.err # Nil => op.file = NoHandle
     /\ op.err = Nil
          => /\ op.file = [st |-> "open", kind |-> op.path, pos |-> 0]
             /\ hnd = op.file

C12_Witness ==
  /\ op.name = "FileSystem.Open" /\ op.path = "" /\ op.err = ErrInvalid
  /\ op.file = NoHandle
  /\ hnd = [st |-> "open", kind |-> "dir", pos |-> 0]

\* C13: FileSystem.Stat and File.Stat return the record and the error of the
\* underlying Stat as they are: for the regular file the name, the size (13
\* for the 13 bytes of "Hello, World!") and is-directory (false) are those of
\* the file in the store, and a path that is not in the store gets an error.
C13_StatForwardsUnderlying ==
  LET target == IF op.name = "FileSystem.Stat" THEN op.path ELSE hnd.kind
  IN op.name \in {"FileSystem.Stat", "File.Stat"}
     => /\ op.err = op.uStat
        /\ (op.name = "FileSystem.Stat" /\ ~Exists(op.path)) => op.err # Nil
        /\ op.err # Nil => op.info = NoInfo
        /\ op.err = Nil
             => /\ op.info = StatInfo(target)
                /\ op.info.name = target
                /\ op.info.isDir = (target = "dir")
                /\ target = "file" => op.info.size = Len(content)
                /\ (target = "file" /\ content = HelloWorld) => op.info.size = 13

C13_Witness ==
  /\ op.name = "FileSystem.Stat" /\ op.path = "file" /\ op.err = Nil
  /\ content = HelloWorld
  /\ op.info.name = "file" /\ op.info.size = 13 /\ ~op.info.isDir
  /\ hnd.st = "open" /\ hnd.kind = "file" /\ hnd.pos = 13

\* C14: for an entry of a listing, Info() returns a nil error and the record
\* the underlying listing produced for it, Name() and IsDir() are that
\* record's, Type().IsDir() equals IsDir(), and calling the methods leaves the
\* store, the handle and the entry as they were.
C14_AccessorsProjectCapturedInfo ==
  [][op'.name = "DirEntry"
     => /\ UNCHANGED <<raw, content, hnd, hist, leaked>>
        /\ \E i \in 1..Len(op.entries) : op'.entries = <<op.entries[i]>>
        /\ op'.err = Nil
        /\ op'.info = op'.entries[1].FileInfo
        /\ op'.info = InfoOf(op'.info.name)
        /\ op'.acc.name = op'.info.name
        /\ op'.acc.isDir = op'.info.isDir
        /\ ModeIsDir(op'.acc.type) = op'.acc.isDir]_vars

C14_Witness ==
  /\ op.name = "DirEntry" /\ raw = MixedDir
  /\ op.acc.name = "f2" /\ op.acc.isDir /\ ModeIsDir(op.acc.type)
  /\ op.info = InfoOf("f2") /\ op.err = Nil
  /\ hnd.st = "open" /\ hnd.kind = "dir" /\ hnd.pos = 4

\* C15: Type() of an entry is the type bits of the captured mode and nothing
\* else: no permission bit is set in it.
C15_TypeHasOnlyTypeBits ==
  op.name = "DirEntry"
  => op.acc.type = ModeType(op.entries[1].FileInfo.mode)

\* C16: File.ReadDir(n) on an open handle of the regular file, for n <= 0 and
\* for n > 0, returns no entries and the error the underlying listing call
\* reported for a handle that is not a directory; the adapter asks the
\* underlying handle, it does not decide by itself.
C16_ReadDirOnFileForwardsError ==
  (op.name = "File.ReadDir" /\ hnd.st = "open" /\ hnd.kind = "file")
  => /\ op.uRead = ErrNotDir
     /\ op.err = op.uRead
     /\ op.entries = <<>>

C16_Witness ==
  /\ op.name = "File.ReadDir" /\ hnd.st = "open" /\ hnd.kind = "file"
  /\ op.n = 2 /\ op.err = ErrNotDir /\ op.entries = <<>>
  /\ hist.got = content /\ content # <<>>

\* C17: when FileSystem.ReadDir or FileSystem.ReadFile opened the path and
\* the listing or the read then failed, the caller gets that error (and no
\* entries from ReadDir), the handle was closed once, and what Close
\* reported, failure included, is not what the caller gets.
C17_ReadErrorSurvivesClose ==
  (IsBatchRead /\ op.uOpen = Nil /\ op.uRead \notin {Nil, EOF})
  => /\ op.err = op.uRead
     /\ op.closes = 1
     /\ leaked = 0
     /\ op.name = "FileSystem.ReadDir" => op.entries = <<>>

C17_Witness ==
  /\ op.name = "FileSystem.ReadFile" /\ op.uOpen = Nil
  /\ op.uRead = ErrIO /\ op.uClose = ErrClose /\ op.err = ErrIO
  /\ op.closes = 1

\* C18: File.ReadDir(n > 0) on an open directory handle pulls the raw entries
\* one per underlying call and stops at the n-th filtered one: the entries it
\* returns are exactly the raw entries it moved the cursor over, less the
\* pseudo-entries; when it returns n entries the cursor stands right behind
\* the raw entry that is the last of them, and every underlying call but a
\* final one that found nothing or failed moved the cursor by one.
C18_StopsAtNthEntry ==
  [][ ( /\ op'.name = "File.ReadDir" /\ op'.n > 0
        /\ hnd.st = "open" /\ hnd.kind = "dir" )
      => /\ hnd'.pos >= hnd.pos
         /\ EntryNames(op'.entries) =
              SelectSeq(SubSeq(raw, hnd.pos + 1, hnd'.pos),
                        LAMBDA nm : nm \notin {Dot, DotDot})
         /\ Len(op'.entries) <= op'.n
         /\ Len(op'.entries) = op'.n
              => /\ hnd'.pos > hnd.pos
                 /\ raw[hnd'.pos] = EntryNames(op'.entries)[op'.n]
                 /\ op'.calls = hnd'.pos - hnd.pos
         /\ Len(op'.entries) < op'.n
              => op'.calls = hnd'.pos - hnd.pos + 1
    ]_vars

C18_Witness ==
  /\ raw = MixedDir
  /\ op.name = "File.ReadDir" /\ op.n = 2 /\ op.err = Nil
  /\ EntryNames(op.entries) = <<"f1", "f2">>
  /\ hnd.st = "open" /\ hnd.pos = 4 /\ op.calls = 4
  /\ hist.returned = <<"f1", "f2">>

\* a is b with some of its elements left out, the others in b's order
RECURSIVE IsSubseq(_, _)
IsSubseq(a, b) ==
  IF a = <<>> THEN TRUE
  ELSE IF b = <<>> THEN FALSE
  ELSE IF Head(a) = Head(b) THEN IsSubseq(Tail(a), Tail(b))
  ELSE IsSubseq(a, Tail(b))

\* C19: the entries of a listing are in the order in which the underlying
\* directory yields them: those of FileSystem.ReadDir, those of
\* File.ReadDir(n <= 0), and the batches of File.ReadDir(n > 0) put one after
\* the other.
C19_ListingsKeepUnderlyingOrder ==
  /\ (op.name = "FileSystem.ReadDir" /\ op.path = "dir")
       => IsSubseq(EntryNames(op.entries), FilteredChildren)
  /\ (hnd.st = "open" /\ hnd.kind = "dir" /\ hist.mode # "faulted")
       => /\ IsSubseq(hist.returned, FilteredChildren)
          /\ op.name = "File.ReadDir"
               => IsSubseq(EntryNames(op.entries), FilteredChildren)

C19_Witness ==
  /\ raw = TestDir /\ hnd.st = "open" /\ hist.mode = "paged"
  /\ op.name = "File.ReadDir" /\ op.n = 1
  /\ EntryNames(op.entries) = <<"file5">>
  /\ hist.returned = <<"file1", "file2", "file3", "file4", "file5">>

\* C20: on an open directory handle that has so far served only
\* File.ReadDir(n > 0), File.ReadDir(n <= 0) returns the children the batches
\* have not returned, all of them and nothing else: with the batches they are
\* the filtered children, each once.
C20_ReadAllAfterBatchesReturnsRest ==
  [][ ( /\ op'.name = "File.ReadDir" /\ op'.n <= 0 /\ op'.uRead = Nil
        /\ hnd.st = "open" /\ hnd.kind = "dir" /\ hist.mode = "paged" )
      => /\ hist.returned \o EntryNames(op'.entries) = FilteredChildren
         /\ hist'.returned = FilteredChildren
         /\ Range(hist.returned) \cap Range(EntryNames(op'.entries)) = {}
    ]_vars

C20_Witness ==
  /\ raw = TestDir /\ hnd.st = "open" /\ hist.mode = "mixed"
  /\ op.name = "File.ReadDir" /\ op.n = 0 /\ op.err = Nil
  /\ EntryNames(op.entries) = <<"file4", "file5">>
  /\ hist.returned = <<"file1", "file2", "file3", "file4", "file5">>

\* C21: File.ReadDir(n > 0) on an open directory handle ends, whatever
\* pseudo-entries the listing holds: it ends with n entries, or with the
\* underlying call that failed, or with the one that returned an empty list,
\* and it has then made at most one underlying call more than there were raw
\* entries left behind the cursor.
C21_LoopEndsWithinRemainingPlusOne ==
  [][ ( /\ op'.name = "File.ReadDir" /\ op'.n > 0
        /\ hnd.st = "open" /\ hnd.kind = "dir" )
      => /\ op'.calls <= Len(raw) - hnd.pos + 1
         /\ op'.calls >= 1
         /\ \/ Len(op'.entries) = op'.n /\ op'.uRead = Nil /\ ~op'.exhausted
            \/ Len(op'.entries) < op'.n /\ op'.uRead # Nil
            \/ Len(op'.entries) < op'.n /\ op'.uRead = Nil /\ op'.exhausted
    ]_vars

C21_Witness ==
  /\ raw = MixedDir /\ hnd.st = "open" /\ hnd.pos = 5
  /\ op.name = "File.ReadDir" /\ op.n = 3 /\ op.calls = 6
  /\ EntryNames(op.entries) = <<"f1", "f2">>
  /\ op.uRead = Nil /\ op.exhausted

\* C22: File.ReadDir(n > 0) never returns no entries together with a nil
\* error, however the underlying handle signals that nothing is left, an
\* empty list with a nil error included.
C22_EmptyBatchHasError ==
  (op.name = "File.ReadDir" /\ op.n > 0 /\ op.entries = <<>>)
  => op.err # Nil

\* C23: when an underlying listing call of File.ReadDir(n > 0) fails with an
\* error that is not io.EOF, the caller gets that error and, with it, the
\* entries the call had accumulated (the children among the raw entries its
\* earlier underlying calls consumed); File.ReadDir(n <= 0) and
\* FileSystem.ReadDir return the error and no entries when the listing fails.
C23_PartialBatchComesWithError ==
  /\ (op.name = "File.ReadDir" /\ op.uRead \notin {Nil, EOF})
       => /\ op.err = op.uRead
          /\ op.n <= 0 => op.entries = <<>>
          /\ (op.n > 0 /\ hnd.st = "open" /\ hnd.kind = "dir")
               => EntryNames(op.entries) =
                    SelectSeq(SubSeq(raw, hnd.pos - op.calls + 2, hnd.pos),
                              LAMBDA nm : nm \notin {Dot, DotDot})
  /\ (op.name = "FileSystem.ReadDir" /\ op.uOpen = Nil /\ op.uRead # Nil)
       => (op.entries = <<>> /\ op.err = op.uRead)

C23_Witness ==
  /\ raw = TestDir /\ hnd.st = "open" /\ hnd.pos = 3
  /\ op.name = "File.ReadDir" /\ op.n = 3 /\ op.calls = 2
  /\ op.uRead = ErrIO /\ op.err = ErrIO
  /\ EntryNames(op.entries) = <<"file1">>

\* C24: once a File.ReadDir(n > 0) on a handle has returned io.EOF, no later
\* File.ReadDir on the handle, while it is open, returns an entry: one with
\* n > 0 to which the underlying handle signals the end again returns no
\* entries and io.EOF, one with n <= 0 whose listing succeeds returns no
\* entries and a nil error.
C24_ExhaustionIsStable ==
  [][ (hist.eof /\ hnd.st = "open" /\ op'.name = "File.ReadDir")
      => /\ op'.entries = <<>>
         /\ hist'.returned = hist.returned
         /\ hist'.eof
         /\ (op'.n > 0 /\ op'.uRead = EOF) => op'.err = EOF
         /\ (op'.n <= 0 /\ op'.uRead = Nil) => op'.err = Nil
    ]_vars

C24_Witness ==
  /\ raw = MixedDir /\ hnd.st = "open" /\ hist.eof /\ hist.mode = "mixed"
  /\ hist.returned = <<"f1", "f2">>
  /\ op.name = "File.ReadDir" /\ op.n > 0 /\ op.entries = <<>> /\ op.err = EOF

\* C25: FileSystem.ReadFile, FileSystem.ReadDir, FileSystem.Stat and
\* File.Stat leave the handle the caller holds as it was, a handle on the
\* path they name included: its cursor and what it has returned are
\* unchanged, and so are the listing and the bytes its next File.ReadDir(n)
\* and File.Read are computed from.
C25_PathOperationsLeaveHandleAlone ==
  [][ op'.name \in {"FileSystem.ReadFile", "FileSystem.ReadDir",
                    "FileSystem.Stat", "File.Stat"}
      => UNCHANGED <<hnd, hist, raw, content>>
    ]_vars

C25_Witness ==
  /\ raw = TestDir /\ hnd = [st |-> "open", kind |-> "dir", pos |-> 3]
  /\ hist.returned = <<"file1">> /\ hist.mode = "paged"
  /\ op.name = "FileSystem.ReadDir" /\ op.path = "dir" /\ op.err = Nil
  /\ Len(op.entries) = 5

\* C26: FileSystem.ReadFile calls that run concurrently on one FileSystem and
\* one path each work on a handle of their own: however their steps
\* interleave, a call whose underlying calls did not fail returns the whole
\* content and a nil error, and a handle the store opened is closed once, by
\* the call that opened it, before that call returns.
C26_ConcurrentReadFilesAreIndependent ==
  /\ \A p \in Procs :
       LET me == rf.procs[p]
       IN /\ me.pc \in {"reading", "closing"}
             => /\ rf.handles[me.h].by = p
                /\ rf.handles[me.h].closedBy = <<>>
                /\ me.data = SubSeq(content, 1, rf.handles[me.h].file.pos)
          /\ (me.pc = "done" /\ me.uOpen = Nil)
             => /\ rf.handles[me.h].by = p
                /\ rf.handles[me.h].closedBy = <<p>>
                /\ (me.uRead = EOF) => me.data = content
                /\ (me.uRead = EOF /\ me.uClose = Nil) => me.err = Nil
          /\ (me.pc = "done" /\ me.uOpen # Nil) => (me.h = 0 /\ me.err = me.uOpen)
  /\ \A i \in 1..Len(rf.handles) : Len(rf.handles[i].closedBy) <= 1
  /\ leaked = Cardinality({i \in 1..Len(rf.handles) : rf.handles[i].closedBy = <<>>})
  /\ (\A p \in Procs : rf.procs[p].pc = "done") => leaked = 0

C26_Witness ==
  /\ content = <<255, 0>>
  /\ rf.procs[2].pc = "done" /\ rf.procs[2].h = 2
  /\ rf.procs[2].data = content /\ rf.procs[2].err = Nil
  /\ rf.handles[2].closedBy = <<2>>
  /\ rf.procs[1].pc = "reading" /\ rf.procs[1].h = 1
  /\ rf.procs[1].data = <<255>> /\ leaked = 1
====
